---- MODULE Spec2Model ----
(***************************************************************************)
(* Model of server/python/video_processor.py: the clip composition         *)
(* (concatenate_videos_ffmpeg, concatenate_with_crossfade), the chapter    *)
(* assembly (assemble_chapter_video_fast) and the project assembly         *)
(* (assemble_full_video_fast).                                             *)
(*                                                                         *)
(* Times are integers in hundredths of a second (0.75 s = 75), except in   *)
(* the text filters, whose times are in milliseconds as printed.  The      *)
(* external engine (ffmpeg), the prober (ffprobe) and cp are the           *)
(* environment: each call picks its outcome nondeterministically.          *)
(* An action is one straight-line segment of the code together with the    *)
(* external call that ends it and that call's outcome.                     *)
(*                                                                         *)
(* The fields of the input (a scene's audio, duration and overlay, a       *)
(* chapter's scene count, the intro and outro references) are drawn where  *)
(* the code reads them.  The one input read twice is the existence of the  *)
(* scene images (the first_image search, then the scene loop): images      *)
(* keeps the second reading consistent with the first.                     *)
(***************************************************************************)
EXTENDS Integers, Sequences, FiniteSets, TLC

\* ---------------------------------------------------------------- bounds
MaxClips == 3
MaxScenes == 2
MaxChapters == 2
\* direct calls of the pure functions
MaxIndex == 11
MaxTotal == 3
MaxCalls == 2
MaxText == 3
MaxCount == 22

\* ------------------------------------------------------ program constants
TransitionDuration == 75
PacingPad == 40
MinDuration == 500
DefaultDuration == 800
MaxTransitionClips == 20
\* text_overlay.get("start_time", 0.5), in hundredths
DefaultOverlayStart == 50

\* ------------------------------------------------- environment value sets
\* durations the prober may report for a clip (0.5 s and 8 s)
ProbeDurs == {50, 800}
\* durations the prober may report for a narration file (3 s and 7 s)
AudioDurs == {300, 700}
\* explicit 'duration' values of a scene (2 s and 9 s)
ExplicitDurs == {200, 900}
NoValue == 0 - 1
\* characters of an overlay text ("NL" is the newline), start times and
\* typing speeds handed to build_typewriter_filter (milliseconds, chars/s)
Chars == {"A", "B", "NL"}
StartTimes == {500, 1000}
TypingSpeeds == {2, 12}
\* 'start_time' values of a scene's explicit text_overlay (hundredths)
OverlayStarts == {100, 1000}
\* start_time, end_time and fade_duration of build_simple_text_filter
\* (hundredths of a second)
SimpleStarts == {0, 20}
SimpleEnds == {300}
FadeDurations == {40, 50}
\* source image sizes (iw, ih) handed to the zoompan filter
Sizes == {<<1920, 1080>>, <<1280, 720>>, <<4000, 3000>>, <<1080, 1920>>}
\* 'duration' arguments, narration lengths and frame rates of the scene
\* operations (hundredths of a second; frames per second)
OpDurations == {500, 600, 740}
OpAudioDurs == {300, 1000}
FrameRates == {24, 30}

VARIABLES
    entry,          \* the public function the run calls
    fnArgs,         \* arguments of the pure function a run calls directly
    fnResults,      \* what the calls of that function returned, in call order
    pc,             \* position of the single thread of control
    disk,           \* path -> content of the file, Absent when there is none
    calls,          \* external invocations made by the current compose call
    cPaths,         \* video_paths of the compose call
    cOut,           \* output_path of the compose call
    cUse,           \* use_transitions of the running concatenate_videos_ffmpeg
    cRet,           \* value the compose call returns (meaningful from pc = "ret")
    cCaller,        \* who gets the compose result: "top", "chapter", "project"
    useTrans,       \* use_transitions argument of the assembly functions
    numChapters,    \* len(chapters) of the project (0 outside a project)
    numScenes,      \* len(scenes) of the chapter being assembled, as line 1284
                    \* read it
    images,         \* what is known of the scenes' image files: "free" (nothing),
                    \* "none" (the first_image search found no image), "pending"
                    \* (it found one, the scene loop has not reached one yet),
                    \* "seen" (the scene loop has reached an existing image)
    chIdx,          \* chapter being assembled (1-based; 0 outside a project)
    chOut,          \* output_path of the running assemble_chapter_video_fast
    scIdx,          \* scene the loop is at (1-based, the code's i + 1)
    scene_clips,    \* scene_clips of the running chapter assembly
    scenesOk,       \* indices of the scenes of the running chapter assembly
                    \* whose create_scene_clip_ffmpeg call returned True
    lastRender,     \* the create_scene_clip_ffmpeg call in flight and its scene
    chRet,          \* value assemble_chapter_video_fast returned
    yearCard,       \* "none", "ok" or "failed": the year title card
    intro,          \* intro_video as line 1461 read it: "unset", "missing" (set,
                    \* no such file), "present" (the file IntroPath); "unread" before
    outro,          \* outro_video as line 1467 read it, likewise
    chapter_videos, \* chapter_videos of assemble_full_video_fast
    chaptersOk,     \* indices of the chapters whose assembly returned True
    pRet            \* value assemble_full_video_fast returned

composeVars == <<disk, calls, cPaths, cOut, cUse, cRet, cCaller>>
chapterVars == <<numScenes, chOut, scIdx, scene_clips, scenesOk, lastRender, chRet>>
projectVars == <<chIdx, yearCard, chapter_videos, chaptersOk, pRet>>
inputVars == <<entry, fnArgs, fnResults, useTrans, numChapters, images, intro, outro>>

vars == <<pc, composeVars, chapterVars, projectVars, inputVars>>

\* ----------------------------------------------------------------- files
Path(kind, n) == [kind |-> kind, n |-> n]
InPath(k) == Path("in", k)
OutPath == Path("out", 0)
Absent == [kind |-> "absent", n |-> 0]

ScenePath(i) == Path("scene", i)
ChapterPath(c) == Path("chapter", c)
YearCardPath == Path("year_card", 0)
IntroPath == Path("intro", 0)
OutroPath == Path("outro", 0)

AllPaths ==
    {InPath(k) : k \in 1..MaxClips} \cup {ScenePath(i) : i \in 1..MaxScenes}
    \cup {ChapterPath(c) : c \in 1..MaxChapters}
    \cup {OutPath, YearCardPath, IntroPath, OutroPath}

\* ------------------------------------------------------------- utilities
Max(a, b) == IF a >= b THEN a ELSE b

RECURSIVE SumTo(_, _)
SumTo(s, i) == IF i = 0 THEN 0 ELSE s[i] + SumTo(s, i - 1)

\* one external invocation: by = the function that made it
Call(by, op, paths, out, durations, offsets, res) ==
    [by |-> by, op |-> op, paths |-> paths, out |-> out,
     durations |-> durations, offsets |-> offsets, res |-> res]

\* ------------------------------------------------ concatenate_with_crossfade
\* the offset loop: cumulative_offset = 0; offset = cumulative + d[i] - g
RECURSIVE OffsetAt(_, _, _)
OffsetAt(durations, g, i) ==
    IF i = 0 THEN 0
    ELSE OffsetAt(durations, g, i - 1) + durations[i] - g

Offsets(durations, g) ==
    [i \in 1..(Len(durations) - 1) |-> OffsetAt(durations, g, i)]

\* lines 1258 and 1264: the fallback is
\* concatenate_videos_ffmpeg(video_paths, output_path, use_transitions=False)
FallbackUseTransitions == TRUE
FallbackUse == FALSE

\* line 1144: if use_transitions and len(video_paths) >= 2
ToCrossfadeAlways(use, n) == n >= 2
ToCrossfade(use, n) == use /\ n >= 2

\* lines 1132-1147: what concatenate_videos_ffmpeg does with n clips
ComposeRoute(use, n) ==
    IF n = 0 THEN "failure"
    ELSE IF n = 1 THEN "copy"
    ELSE IF ToCrossfade(use, n) THEN "crossfade"
    ELSE "hard_cut"

\* line 1139: if len(video_paths) == 1
IsSingleNever(paths) == FALSE
IsSingle(paths) == Len(paths) = 1

\* ------------------------------------------------ concatenate_videos_ffmpeg
\* if not video_paths: return False
ConcatEmpty ==
    /\ pc = "concat"
    /\ Len(cPaths) = 0
    /\ cRet' = FALSE
    /\ pc' = "ret"
    /\ UNCHANGED <<disk, calls, cPaths, cOut, cUse, cCaller, chapterVars, projectVars, inputVars>>

\* len == 1: subprocess.run(["cp", ...], check=True); return True
\* a failing cp raises and the except clause returns False
ConcatSingle ==
    /\ pc = "concat"
    /\ Len(cPaths) > 0
    /\ IsSingle(cPaths)
    /\ \E res \in {"ok", "raise"} :
        /\ calls' = Append(calls, Call("concat", "cp", cPaths, cOut, <<>>, <<>>, res))
        /\ disk' = IF res = "ok" THEN [disk EXCEPT ![cOut] = disk[cPaths[1]]]
                   ELSE disk
        /\ cRet' = (res = "ok")
    /\ pc' = "ret"
    /\ UNCHANGED <<cPaths, cOut, cUse, cCaller, chapterVars, projectVars, inputVars>>

\* if use_transitions and len >= 2: return concatenate_with_crossfade(...)
ConcatToCrossfade ==
    /\ pc = "concat"
    /\ Len(cPaths) > 0
    /\ ~IsSingle(cPaths)
    /\ ToCrossfade(cUse, Len(cPaths))
    /\ pc' = "xfade"
    /\ UNCHANGED <<composeVars, chapterVars, projectVars, inputVars>>

\* the concat demuxer run; return result.returncode == 0 (False on a raise)
ConcatEngine ==
    /\ pc = "concat"
    /\ Len(cPaths) > 0
    /\ ~IsSingle(cPaths)
    /\ ~ToCrossfade(cUse, Len(cPaths))
    /\ \E res \in {"ok", "nonzero", "raise"} :
        /\ calls' = Append(calls, Call("concat", "concat", cPaths, cOut, <<>>, <<>>, res))
        /\ disk' = IF res = "ok"
                   THEN [disk EXCEPT ![cOut] = [kind |-> "concat", n |-> 0]]
                   ELSE disk
        /\ cRet' = (res = "ok")
    /\ pc' = "ret"
    /\ UNCHANGED <<cPaths, cOut, cUse, cCaller, chapterVars, projectVars, inputVars>>

\* ------------------------------------------------ concatenate_with_crossfade
\* len < 2 and no clip: return True
CrossfadeEmpty ==
    /\ pc = "xfade"
    /\ Len(cPaths) = 0
    /\ cRet' = TRUE
    /\ pc' = "ret"
    /\ UNCHANGED <<disk, calls, cPaths, cOut, cUse, cCaller, chapterVars, projectVars, inputVars>>

\* len < 2 and one clip: cp, return True; a failing cp raises into the
\* except clause, which calls concatenate_videos_ffmpeg(..., False)
CrossfadeSingle ==
    /\ pc = "xfade"
    /\ Len(cPaths) = 1
    /\ \E res \in {"ok", "raise"} :
        /\ calls' = Append(calls, Call("xfade", "cp", cPaths, cOut, <<>>, <<>>, res))
        /\ IF res = "ok"
           THEN /\ disk' = [disk EXCEPT ![cOut] = disk[cPaths[1]]]
                /\ cRet' = TRUE
                /\ pc' = "ret"
                /\ cUse' = cUse
           ELSE /\ disk' = disk
                /\ cRet' = cRet
                /\ pc' = "concat"
                /\ cUse' = FallbackUse
    /\ UNCHANGED <<cPaths, cOut, cCaller, chapterVars, projectVars, inputVars>>

\* probe every clip, build the xfade chain, run the engine.
\* returncode 0: return True; nonzero or a raise: fall back to
\* concatenate_videos_ffmpeg(video_paths, output_path, use_transitions=False)
CrossfadeEngine ==
    /\ pc = "xfade"
    /\ Len(cPaths) >= 2
    /\ \E durations \in [1..Len(cPaths) -> ProbeDurs],
          res \in {"ok", "nonzero", "raise"} :
        /\ calls' = Append(calls,
                Call("xfade", "xfade", cPaths, cOut, durations,
                     Offsets(durations, TransitionDuration), res))
        /\ IF res = "ok"
           THEN /\ disk' = [disk EXCEPT ![cOut] = [kind |-> "xfade", n |-> 0]]
                /\ cRet' = TRUE
                /\ pc' = "ret"
                /\ cUse' = cUse
           ELSE /\ disk' = disk
                /\ cRet' = cRet
                /\ pc' = "concat"
                /\ cUse' = FallbackUse
    /\ UNCHANGED <<cPaths, cOut, cCaller, chapterVars, projectVars, inputVars>>

\* the compose call returns to a top-level caller
ComposeReturnTop ==
    /\ pc = "ret"
    /\ cCaller = "top"
    /\ pc' = "done"
    /\ UNCHANGED <<composeVars, chapterVars, projectVars, inputVars>>

\* ------------------------------------------------------- motion presets
\* KEN_BURNS_PRESETS (zooms and anchors in hundredths)
Preset(sz, ez, sx, ex, sy, ey) ==
    [start_zoom |-> sz, end_zoom |-> ez, start_x |-> sx, end_x |-> ex,
     start_y |-> sy, end_y |-> ey]

KEN_BURNS_PRESETS ==
    [zoom_in_center |-> Preset(100, 120, 50, 50, 50, 50),
     zoom_out_center |-> Preset(125, 100, 50, 50, 50, 50),
     pan_left_zoom |-> Preset(115, 120, 65, 35, 50, 50),
     pan_right_zoom |-> Preset(115, 120, 35, 65, 50, 50),
     pan_up_zoom |-> Preset(115, 120, 50, 50, 60, 40),
     pan_down_zoom |-> Preset(115, 120, 50, 50, 40, 60),
     diagonal_tl_br |-> Preset(110, 125, 35, 65, 35, 65),
     diagonal_tr_bl |-> Preset(110, 125, 65, 35, 35, 65),
     diagonal_bl_tr |-> Preset(125, 110, 35, 65, 65, 35),
     diagonal_br_tl |-> Preset(125, 110, 65, 35, 65, 35),
     focus_top_left |-> Preset(100, 135, 50, 30, 50, 30),
     focus_top_right |-> Preset(100, 135, 50, 70, 50, 30),
     focus_bottom_center |-> Preset(100, 130, 50, 50, 50, 70),
     reveal_from_center |-> Preset(140, 100, 50, 50, 50, 50),
     reveal_from_left |-> Preset(135, 100, 30, 50, 50, 50),
     reveal_from_right |-> Preset(135, 100, 70, 50, 50, 50)]

EFFECT_SEQUENCES ==
    << <<"zoom_in_center", "pan_left_zoom", "diagonal_tl_br",
         "reveal_from_center", "pan_right_zoom", "focus_top_left">>,
       <<"pan_right_zoom", "zoom_out_center", "diagonal_br_tl",
         "pan_up_zoom", "focus_bottom_center", "reveal_from_right">>,
       <<"diagonal_bl_tr", "zoom_in_center", "pan_left_zoom",
         "reveal_from_left", "diagonal_tr_bl", "pan_down_zoom">> >>

\* sequence = EFFECT_SEQUENCES[scene_index % len(EFFECT_SEQUENCES)]
\* return sequence[scene_index % len(sequence)]   (sequences here are 1-based)
get_effect_for_scene_total(scene_index, total_scenes) ==
    LET sequence == EFFECT_SEQUENCES[(scene_index % Len(EFFECT_SEQUENCES)) + 1]
    IN  sequence[((scene_index + total_scenes) % Len(sequence)) + 1]

get_effect_for_scene(scene_index, total_scenes) ==
    LET sequence == EFFECT_SEQUENCES[(scene_index % Len(EFFECT_SEQUENCES)) + 1]
    IN  sequence[(scene_index % Len(sequence)) + 1]

\* line 980: preset = KEN_BURNS_PRESETS.get(effect, ["zoom_in_center"])
PresetOf(effect) ==
    IF effect \in DOMAIN KEN_BURNS_PRESETS
    THEN KEN_BURNS_PRESETS[effect]
    ELSE KEN_BURNS_PRESETS["zoom_in_center"]

\* lines 1000-1001: the window zoompan is asked for along one axis, with
\* anchor and zoom in hundredths: its low edge anchor*size - size/zoom/2 and
\* its high edge, low + size/zoom, both as numerators over den = 100 * zoom
Viewport(anchor, zoom, size) ==
    [lo |-> size * (anchor * zoom - 5000),
     hi |-> size * (anchor * zoom + 5000),
     den |-> 100 * zoom,
     size |-> size]

\* lines 996-1001 at eased progress 0 (ease = 0) or 1 (ease = 1)
MotionAt(preset, ease, iw, ih) ==
    LET zoom == preset.start_zoom + (preset.end_zoom - preset.start_zoom) * ease
        ax == preset.start_x + (preset.end_x - preset.start_x) * ease
        ay == preset.start_y + (preset.end_y - preset.start_y) * ease
    IN  [zoom |-> zoom, x |-> Viewport(ax, zoom, iw), y |-> Viewport(ay, zoom, ih)]

\* the motion build_zoompan_filter encodes, at its two ends
build_zoompan_filter(effect, iw, ih) ==
    [start |-> MotionAt(PresetOf(effect), 0, iw, ih),
     end |-> MotionAt(PresetOf(effect), 1, iw, ih)]

\* ------------------------------------------------------ scene operations
SceneOps ==
    {"create_scene_clip_ffmpeg", "create_letterbox_scene", "create_pip_scene",
     "create_quote_box_scene", "create_date_stamp_scene",
     "create_split_screen_scene", "create_portrait_title_card"}

\* total_frames = int(duration * fps), duration in hundredths
FrameCount(duration, fps) == (duration * fps) \div 100

\* the value passed as -t.  create_scene_clip_ffmpeg renders the duration
\* it was given (lines 1099, 1116); the other operations first lengthen it
\* to the narration: duration = max(duration, audio_duration + 0.4)
\* (lines 451-453, 536-538, 622-624, 691-693, 763-765, 846-848)
FinalDuration(op, duration, audio) ==
    IF op = "create_scene_clip_ffmpeg" \/ audio = NoValue
    THEN duration
    ELSE Max(duration, audio + 40)

\* the frame count handed to the motion filter (computed from the duration
\* argument at the top of each operation) and the rendered duration
SceneOperation(op, duration, audio, fps) ==
    [total_frames |-> FrameCount(duration, fps),
     t |-> FinalDuration(op, duration, audio)]

\* -------------------------------------------------------- text overlays
\* TEXT_STYLES: the fields build_typewriter_filter reads
Style(fontsize, position, shadow, box) ==
    [fontsize |-> fontsize, position |-> position, shadow |-> shadow, box |-> box]

TEXT_STYLES ==
    [year_title |-> Style(180, "center", TRUE, FALSE),
     chapter_title |-> Style(72, "center", TRUE, FALSE),
     date_overlay |-> Style(48, "top_right", TRUE, FALSE),
     location_text |-> Style(36, "bottom_left", TRUE, FALSE),
     caption |-> Style(32, "bottom_center", TRUE, TRUE),
     letterbox_caption |-> Style(42, "letterbox_bottom", FALSE, FALSE),
     quote_box |-> Style(38, "top_left", FALSE, TRUE),
     date_stamp |-> Style(52, "bottom_left", FALSE, TRUE),
     title_subtitle |-> Style(36, "center_left", TRUE, FALSE)]

\* text.split('\n')
RECURSIVE SplitLines(_)
SplitLines(text) ==
    IF \A k \in 1..Len(text) : text[k] # "NL"
    THEN <<text>>
    ELSE LET k == CHOOSE j \in 1..Len(text) :
                    /\ text[j] = "NL"
                    /\ \A m \in 1..(j - 1) : text[m] # "NL"
         IN  <<SubSeq(text, 1, k - 1)>>
             \o SplitLines(SubSeq(text, k + 1, Len(text)))

\* a / b rounded to the nearest integer (a >= 0, b > 0)
RoundDiv(a, b) == (2 * a + b) \div (2 * b)

\* lines 282 and 299: char_start = start_time + char_index / chars_per_second
\* as '{char_start:.3f}' prints it: milliseconds, start_time in milliseconds
CharStart(start_time, char_index, chars_per_second) ==
    start_time + RoundDiv(1000 * char_index, chars_per_second)

\* line 313: char_index += 1 at the end of each line
NewlineNotCounted(char_index) == char_index
NewlineCounted(char_index) == char_index + 1

\* lines 281-310: the primitives of one line, the shadow layer of a glyph
\* before its main layer
GlyphPrimitives(line, line_num, char_index, shadow, start_time, cps) ==
    LET layers == IF shadow THEN 2 ELSE 1
    IN  [k \in 1..(Len(line) * layers) |->
            LET c == (k - 1) \div layers
            IN  [kind |-> IF shadow /\ (k - 1) % layers = 0
                          THEN "shadow" ELSE "drawtext",
                 char |-> line[c + 1],
                 line |-> line_num,
                 col |-> c,
                 w |-> 0,
                 h |-> 0,
                 enable |-> [op |-> "gte",
                             t |-> CharStart(start_time, char_index + c, cps)]]]

\* lines 278-313: the loop over the lines, char_index running across them
RECURSIVE LinePrimitives(_, _, _, _, _, _)
LinePrimitives(lines, n, char_index, shadow, start_time, cps) ==
    IF n > Len(lines) THEN <<>>
    ELSE GlyphPrimitives(lines[n], n - 1, char_index, shadow, start_time, cps)
         \o LinePrimitives(lines, n + 1,
                           NewlineCounted(char_index + Len(lines[n])),
                           shadow, start_time, cps)

RECURSIVE MaxLineLen(_, _)
MaxLineLen(lines, n) ==
    IF n = 0 THEN 0
    ELSE LET m == MaxLineLen(lines, n - 1)
         IN  IF Len(lines[n]) >= m THEN Len(lines[n]) ELSE m

\* lines 263-272: the box of a boxed style, sized for the full text:
\* box_w = int(max_line_len * fontsize * 0.55 + 50),
\* box_h = int(num_lines * int(fontsize * 1.4) + 30), visible from
\* start_time - 0.1
BoxPrimitiveAtStart(lines, fontsize, start_time) ==
    [kind |-> "drawbox",
     char |-> "",
     line |-> 0,
     col |-> 0,
     w |-> (MaxLineLen(lines, Len(lines)) * fontsize * 55 + 5000) \div 100,
     h |-> Len(lines) * ((fontsize * 14) \div 10) + 30,
     enable |-> [op |-> "gte", t |-> start_time]]

BoxPrimitive(lines, fontsize, start_time) ==
    [kind |-> "drawbox",
     char |-> "",
     line |-> 0,
     col |-> 0,
     w |-> (MaxLineLen(lines, Len(lines)) * fontsize * 55 + 5000) \div 100,
     h |-> Len(lines) * ((fontsize * 14) \div 10) + 30,
     enable |-> [op |-> "gte", t |-> start_time - 100]]

\* the sequence of filter primitives that build_typewriter_filter joins
build_typewriter_filter(text, style, start_time, chars_per_second) ==
    LET style_config == IF style \in DOMAIN TEXT_STYLES
                        THEN TEXT_STYLES[style]
                        ELSE TEXT_STYLES["chapter_title"]
        lines == SplitLines(text)
    IN  (IF style_config.box
         THEN <<BoxPrimitive(lines, style_config.fontsize, start_time)>>
         ELSE <<>>)
        \o LinePrimitives(lines, 1, 0, style_config.shadow, start_time,
                          chars_per_second)

\* ------------------------------------------------ build_simple_text_filter
\* a style name that TEXT_STYLES does not hold
UnregisteredStyle == "banner"

\* line 345: if end_time (None and 0.0 are both falsy)
EndGiven(end_time) == end_time # NoValue /\ end_time # 0

\* lines 347 and 351: the alpha ramp, 0 before rise_from, linear up to 1 at
\* rise_to, and with an end time linear down from fall_from to 0 at fall_to.
\* The expression is assigned to alpha_expr; no primitive is built from it
alpha_expr(start_time, end_time, fade_duration) ==
    [rise_from |-> start_time,
     rise_to |-> start_time + fade_duration,
     fall_from |-> IF EndGiven(end_time) THEN end_time - fade_duration ELSE NoValue,
     fall_to |-> IF EndGiven(end_time) THEN end_time ELSE NoValue]

\* lines 348 and 352: enable_expr
enable_expr(start_time, end_time) ==
    IF EndGiven(end_time)
    THEN [op |-> "between", from |-> start_time, to |-> end_time]
    ELSE [op |-> "gte", from |-> start_time, to |-> NoValue]

\* lines 358-359 and 369: the options a drawtext primitive is written with
DrawtextOptions == {"text", "fontsize", "fontcolor", "font", "x", "y", "enable"}
\* line 365: box_opts
BoxOptions == {"box", "boxcolor", "boxborderw"}

\* lines 331-372: the primitives build_simple_text_filter joins: the shadow
\* layer of a shadowed style, then the main text
build_simple_text_filter(style, start_time, end_time, fade_duration) ==
    LET style_config == IF style \in DOMAIN TEXT_STYLES
                        THEN TEXT_STYLES[style]
                        ELSE TEXT_STYLES["year_title"]
        enable == enable_expr(start_time, end_time)
    IN  (IF style_config.shadow
         THEN <<[kind |-> "shadow", fontsize |-> style_config.fontsize,
                 enable |-> enable, opts |-> DrawtextOptions]>>
         ELSE <<>>)
        \o <<[kind |-> "drawtext", fontsize |-> style_config.fontsize,
               enable |-> enable,
               opts |-> DrawtextOptions
                        \cup (IF style_config.box THEN BoxOptions ELSE {})]>>

\* --------------------------------------------- assemble_chapter_video_fast
NoRender ==
    [i |-> 0, audio |-> "unset", d |-> NoValue, e |-> NoValue,
     duration |-> 0, overlay |-> "none", to |-> "unset", date |-> FALSE,
     loc |-> FALSE, title |-> FALSE, kb |-> "unset", effect |-> "none",
     st |-> NoValue, start |-> NoValue]

\* values of a scene's 'ken_burns_effect': a registered preset that no effect
\* sequence holds, and a name that is not registered
RegisteredEffect == "focus_top_right"
UnregisteredEffect == "spin"

\* line 1296: the index handed to get_effect_for_scene is the enumerate()
\* index of the scene in the declared list
EffectIndexAmongRendered(declared, rendered) == rendered
EffectIndex(declared, rendered) == declared

\* lines 1301-1305: the scene's own preset if it is registered, else the
\* preset of the scene's position
ResolveEffect(kb, i, total) ==
    IF kb # "unset" /\ kb \in DOMAIN KEN_BURNS_PRESETS
    THEN kb
    ELSE get_effect_for_scene(i, total)

\* lines 1322-1350: the overlay of scene i (0-based).  to: the scene's
\* 'text_overlay' ("unset" when absent or empty); date, loc: 'date_text',
\* 'location_text' is non-empty; title: the chapter title is non-empty
ResolveOverlayTitleAnyScene(i, to, date, loc, title) ==
    IF to # "unset" THEN to
    ELSE IF date THEN "date_text"
    ELSE IF loc THEN "location_text"
    ELSE IF title THEN "chapter_title"
    ELSE "none"

ResolveOverlay(i, to, date, loc, title) ==
    IF to # "unset" THEN to
    ELSE IF date THEN "date_text"
    ELSE IF loc THEN "location_text"
    ELSE IF i = 0 /\ title THEN "chapter_title"
    ELSE "none"

\* lines 1384-1388: the handler of assemble_chapter_video_fast returns False
ChapterHandlerReraises == "raised"
ChapterHandler == "ch_ret"

\* lines 1311-1320: audio-driven duration, else explicit or default, then
\* the floor.  audio = "present": the file exists and the prober reports d;
\* e = NoValue: the scene has no 'duration' field
ResolveDurationNoPad(audio, d, e) ==
    Max(IF audio = "present" THEN d
        ELSE IF e = NoValue THEN DefaultDuration ELSE e,
        MinDuration)

ResolveDurationNoFloor(audio, d, e) ==
    IF audio = "present" THEN d + PacingPad
    ELSE IF e = NoValue THEN DefaultDuration ELSE e

ResolveDuration(audio, d, e) ==
    Max(IF audio = "present" THEN d + PacingPad
        ELSE IF e = NoValue THEN DefaultDuration ELSE e,
        MinDuration)

\* line 1374: should_use_transitions
ShouldUseTransitions(use, n) ==
    use /\ n >= 2 /\ n <= MaxTransitionClips

\* line 1382: return success
ChapterResult(success) == success

\* line 1362: scene_clips.append(scene_output)
PrependClip(clips, p) == <<p>> \o clips
AppendClip(clips, p) == Append(clips, p)

\* a scene after the current one may exist (in this chapter or a later one)
LaterSceneExists ==
    \/ scIdx < numScenes
    \/ chIdx < numChapters

\* os.path.exists(img_path) agrees with what the first_image search saw
ImageMayExist == images # "none"
ImageMayBeMissing == images # "pending" \/ LaterSceneExists

\* scenes = chapter_data.get("scenes", []); if not scenes: return False
ChapterNoScenes ==
    /\ pc = "chapter"
    /\ numScenes = 0
    /\ chRet' = FALSE
    /\ pc' = "ch_ret"
    /\ scene_clips' = <<>>
    /\ scenesOk' = {}
    /\ scIdx' = 0
    /\ lastRender' = NoRender
    /\ calls' = <<>>
    /\ cCaller' = "none"
    /\ UNCHANGED <<disk, cPaths, cOut, cUse, cRet, numScenes, chOut, projectVars, inputVars>>

\* scene_clips = []; the loop starts at the first scene
ChapterBegin ==
    /\ pc = "chapter"
    /\ numScenes > 0
    /\ scene_clips' = <<>>
    /\ scenesOk' = {}
    /\ scIdx' = 1
    /\ lastRender' = NoRender
    /\ calls' = <<>>
    /\ cCaller' = "none"
    /\ pc' = "scene"
    /\ UNCHANGED <<disk, cPaths, cOut, cUse, cRet, numScenes, chOut, chRet, projectVars, inputVars>>

\* if not img_path or not os.path.exists(img_path): continue
SceneImageMissing ==
    /\ pc = "scene"
    /\ scIdx <= numScenes
    /\ ImageMayBeMissing
    /\ scIdx' = scIdx + 1
    /\ UNCHANGED <<pc, composeVars, numScenes, chOut, scene_clips, scenesOk, lastRender, chRet,
                   projectVars, inputVars>>

\* a scene with an image and nothing else
PlainScene ==
    [audio |-> "unset", d |-> NoValue, e |-> NoValue, to |-> "unset",
     date |-> FALSE, loc |-> FALSE, title |-> FALSE, kb |-> "unset",
     st |-> NoValue]

\* the scene's fields, the chapter title and the prober's answer, as the
\* loop body reads them.  The duration (lines 1311-1320), the overlay
\* (lines 1322-1350) and the effect (lines 1301-1305) are resolved from
\* disjoint fields: the scenes vary one group of fields at a time.
SceneInputs ==
    {[PlainScene EXCEPT !.audio = a, !.e = e] :
        a \in {"unset", "missing"}, e \in {NoValue} \cup ExplicitDurs}
    \cup
    {[PlainScene EXCEPT !.audio = "present", !.d = d, !.e = e] :
        d \in AudioDurs, e \in {NoValue} \cup ExplicitDurs}
    \cup
    {[PlainScene EXCEPT !.to = o, !.date = dt, !.loc = l, !.title = t] :
        o \in {"unset", "explicit", "explicit_notext"},
        dt \in BOOLEAN, l \in BOOLEAN, t \in BOOLEAN}
    \cup
    {[PlainScene EXCEPT !.kb = k] : k \in {RegisteredEffect, UnregisteredEffect}}
    \cup
    {[PlainScene EXCEPT !.to = "explicit", !.st = s, !.e = e] :
        s \in OverlayStarts, e \in {NoValue} \cup ExplicitDurs}

\* the reveal start create_scene_clip_ffmpeg uses (line 1068):
\* text_overlay.get("start_time", 0.5); the overlays built from date_text,
\* location_text and the chapter title carry "start_time": 0.5 (lines
\* 1333, 1340, 1348).  st: the explicit overlay's 'start_time', if any
OverlayStart(overlay, st) ==
    IF overlay \in {"none", "explicit_notext"} THEN NoValue
    ELSE IF overlay = "explicit" /\ st # NoValue THEN st
    ELSE DefaultOverlayStart

RenderOf(in, i) ==
    [i |-> i, audio |-> in.audio, d |-> in.d, e |-> in.e,
     duration |-> ResolveDuration(in.audio, in.d, in.e),
     overlay |-> ResolveOverlay(i - 1, in.to, in.date, in.loc, in.title),
     to |-> in.to, date |-> in.date, loc |-> in.loc, title |-> in.title,
     kb |-> in.kb,
     effect |-> ResolveEffect(in.kb, EffectIndex(i - 1, Len(scene_clips)),
                              numScenes),
     st |-> in.st,
     start |-> OverlayStart(ResolveOverlay(i - 1, in.to, in.date, in.loc, in.title),
                            in.st)]

\* lines 1311-1360: the image exists; resolve the duration and the overlay
\* and call create_scene_clip_ffmpeg(img_path, scene_output, duration, ...)
SceneCall ==
    /\ pc = "scene"
    /\ scIdx <= numScenes
    /\ ImageMayExist
    /\ \E in \in SceneInputs : lastRender' = RenderOf(in, scIdx)
    /\ images' = (IF images = "pending" THEN "seen" ELSE images)
    /\ pc' = "render"
    /\ UNCHANGED <<composeVars, numScenes, chOut, scIdx, scene_clips, scenesOk, chRet, projectVars,
                   entry, fnArgs, fnResults, useTrans, numChapters, intro, outro>>

\* the image exists, the scene has no usable audio and its 'duration' is not
\* a number (a JSON null): max(duration, 5.0) at line 1320 raises TypeError,
\* the handler returns False (the cleanup loop is not reached)
SceneDurationRaises ==
    /\ pc = "scene"
    /\ scIdx <= numScenes
    /\ ImageMayExist
    /\ images' = (IF images = "pending" THEN "seen" ELSE images)
    /\ chRet' = FALSE
    /\ pc' = ChapterHandler
    /\ UNCHANGED <<composeVars, numScenes, chOut, scIdx, scene_clips, scenesOk, lastRender,
                   projectVars, entry, fnArgs, fnResults, useTrans, numChapters, intro,
                   outro>>

\* create_scene_clip_ffmpeg returned True: scene_clips.append(scene_output),
\* then the progress line, which reads text_overlay['text']
SceneRendered ==
    /\ pc = "render"
    /\ lastRender.overlay # "explicit_notext"
    /\ scene_clips' = AppendClip(scene_clips, ScenePath(scIdx))
    /\ scenesOk' = scenesOk \cup {scIdx}
    /\ disk' = [disk EXCEPT ![ScenePath(scIdx)] = [kind |-> "scene", n |-> scIdx]]
    /\ scIdx' = scIdx + 1
    /\ lastRender' = NoRender
    /\ pc' = "scene"
    /\ UNCHANGED <<calls, cPaths, cOut, cUse, cRet, cCaller, numScenes, chOut, chRet,
                   projectVars, inputVars>>

\* create_scene_clip_ffmpeg returned False: warning, next scene
SceneRenderFailed ==
    /\ pc = "render"
    /\ scIdx' = scIdx + 1
    /\ lastRender' = NoRender
    /\ pc' = "scene"
    /\ UNCHANGED <<composeVars, numScenes, chOut, scene_clips, scenesOk, chRet, projectVars, inputVars>>

\* the clip was rendered and appended, but the scene's explicit text_overlay
\* has no 'text' key: text_overlay['text'] at line 1363 raises KeyError, the
\* outer except returns False (the cleanup loop is not reached)
SceneLogRaises ==
    /\ pc = "render"
    /\ lastRender.overlay = "explicit_notext"
    /\ scene_clips' = AppendClip(scene_clips, ScenePath(scIdx))
    /\ scenesOk' = scenesOk \cup {scIdx}
    /\ disk' = [disk EXCEPT ![ScenePath(scIdx)] = [kind |-> "scene", n |-> scIdx]]
    /\ lastRender' = NoRender
    /\ chRet' = FALSE
    /\ pc' = ChapterHandler
    /\ UNCHANGED <<calls, cPaths, cOut, cUse, cRet, cCaller, numScenes, chOut, scIdx,
                   projectVars, inputVars>>

\* if not scene_clips: return False
ChapterNoClips ==
    /\ pc = "scene"
    /\ scIdx > numScenes
    /\ Len(scene_clips) = 0
    /\ chRet' = FALSE
    /\ pc' = "ch_ret"
    /\ UNCHANGED <<composeVars, numScenes, chOut, scIdx, scene_clips, scenesOk, lastRender,
                   projectVars, inputVars>>

\* success = concatenate_videos_ffmpeg(scene_clips, output_path,
\*                                     use_transitions=should_use_transitions)
ChapterCompose ==
    /\ pc = "scene"
    /\ scIdx > numScenes
    /\ Len(scene_clips) > 0
    /\ cPaths' = scene_clips
    /\ cOut' = chOut
    /\ cUse' = ShouldUseTransitions(useTrans, Len(scene_clips))
    /\ cCaller' = "chapter"
    /\ calls' = <<>>
    /\ pc' = "concat"
    /\ UNCHANGED <<disk, cRet, numScenes, chOut, scIdx, scene_clips, scenesOk, lastRender, chRet,
                   projectVars, inputVars>>

\* the compose call returned: remove every temp scene clip, return success
ChapterCleanup ==
    /\ pc = "ret"
    /\ cCaller = "chapter"
    /\ disk' = [p \in AllPaths |->
                  IF \E k \in 1..Len(scene_clips) : scene_clips[k] = p
                  THEN Absent ELSE disk[p]]
    /\ chRet' = ChapterResult(cRet)
    /\ pc' = "ch_ret"
    /\ UNCHANGED <<calls, cPaths, cOut, cUse, cRet, cCaller, numScenes, chOut, scIdx,
                   scene_clips, scenesOk, lastRender, projectVars, inputVars>>

\* assemble_chapter_video_fast was the top-level call
ChapterReturnTop ==
    /\ pc = "ch_ret"
    /\ entry = "chapter"
    /\ pc' = "done"
    /\ UNCHANGED <<composeVars, chapterVars, projectVars, inputVars>>

\* ------------------------------------------------ assemble_full_video_fast
\* lines 1421-1428: some scene of some chapter has an image that exists
\* lines 1421-1428: first_image can only be found if there is a chapter
\* (one that has a scene whose image exists)
HasScene == numChapters > 0

\* lines 1458-1469: intro, then chapter_videos, then outro
AllVideosIntroLast(in, videos, out) ==
    videos
    \o (IF out = "present" THEN <<OutroPath>> ELSE <<>>)
    \o (IF in = "present" THEN <<IntroPath>> ELSE <<>>)

AllVideosOutroFirst(in, videos, out) ==
    (IF out = "present" THEN <<OutroPath>> ELSE <<>>)
    \o (IF in = "present" THEN <<IntroPath>> ELSE <<>>)
    \o videos

AllVideos(in, videos, out) ==
    (IF in = "present" THEN <<IntroPath>> ELSE <<>>)
    \o videos
    \o (IF out = "present" THEN <<OutroPath>> ELSE <<>>)

\* line 1472: use_transitions=use_transitions, whatever the clip count n
ProjectUseTransitions(use, n) == use

\* line 1479: return success
ProjectResultAlwaysTrue(success) == TRUE
ProjectResult(success) == success

\* line 1448: if assemble_chapter_video_fast(...): chapter_videos.append(...)
AcceptChapterAlways(ok) == TRUE
AcceptChapter(ok) == ok

\* lines 1481-1483: the handler of assemble_full_video_fast returns False
ProjectHandler == "done"

\* chapters = project_data.get("chapters", []); if not chapters: return False
ProjectNoChapters ==
    /\ pc = "project"
    /\ numChapters = 0
    /\ pRet' = FALSE
    /\ pc' = "done"
    /\ UNCHANGED <<composeVars, chapterVars, chIdx, yearCard, chapter_videos,
                   chaptersOk, inputVars>>

\* an entry of chapters is not a mapping: chapter.get at line 1423 raises
\* AttributeError and the handler (lines 1481-1483) returns False
ProjectMalformed ==
    /\ pc = "project"
    /\ numChapters > 0
    /\ pRet' = FALSE
    /\ pc' = ProjectHandler
    /\ UNCHANGED <<composeVars, chapterVars, chIdx, yearCard, chapter_videos,
                   chaptersOk, inputVars>>

\* lines 1434-1444: whatever create_title_card returned, the chapter loop
\* is next
AfterTitleCardAborts(made) == IF made THEN "p_loop" ELSE "done"
AfterTitleCard(made) == "p_loop"

\* lines 1475-1477: for temp_video in chapter_videos: os.remove(temp_video)
ProjectCleanupAllVideos(videos, all) == {all[k] : k \in 1..Len(all)}
ProjectCleanupTargets(videos, all) == {videos[k] : k \in 1..Len(videos)}

\* no year_title, or no image to put behind it: no title card
ProjectNoTitleCard ==
    /\ pc = "project"
    /\ numChapters > 0
    /\ images' \in (IF HasScene THEN {"none", "pending"} ELSE {"none"})
    /\ yearCard' = "none"
    /\ chapter_videos' = <<>>
    /\ chIdx' = 1
    /\ pc' = "p_loop"
    /\ UNCHANGED <<composeVars, chapterVars, chaptersOk, pRet, entry, fnArgs, fnResults, useTrans,
                   numChapters, intro, outro>>

\* year_title and first_image: create_title_card returned True,
\* chapter_videos.append(year_card_path)
ProjectTitleCardOk ==
    /\ pc = "project"
    /\ numChapters > 0
    /\ HasScene
    /\ images' = "pending"
    /\ yearCard' = "ok"
    /\ chapter_videos' = <<YearCardPath>>
    /\ disk' = [disk EXCEPT ![YearCardPath] = [kind |-> "card", n |-> 0]]
    /\ chIdx' = 1
    /\ pc' = AfterTitleCard(TRUE)
    /\ UNCHANGED <<calls, cPaths, cOut, cUse, cRet, cCaller, chapterVars,
                   chaptersOk, pRet, entry, fnArgs, fnResults, useTrans, numChapters, intro, outro>>

\* year_title and first_image: create_title_card returned False
ProjectTitleCardFailed ==
    /\ pc = "project"
    /\ numChapters > 0
    /\ HasScene
    /\ images' = "pending"
    /\ yearCard' = "failed"
    /\ chapter_videos' = <<>>
    /\ chIdx' = 1
    /\ pc' = AfterTitleCard(FALSE)
    /\ UNCHANGED <<composeVars, chapterVars, chaptersOk, pRet, entry, fnArgs, fnResults, useTrans,
                   numChapters, intro, outro>>

\* the chapter loop calls assemble_chapter_video_fast(chapter, chapter_output)
ProjectNextChapter ==
    /\ pc = "p_loop"
    /\ chIdx <= numChapters
    /\ chOut' = ChapterPath(chIdx)
    /\ numScenes' \in {n \in 0..MaxScenes :
                        (images = "pending" /\ chIdx = numChapters) => n > 0}
    /\ pc' = "chapter"
    /\ UNCHANGED <<composeVars, scIdx, scene_clips, scenesOk, lastRender, chRet,
                   projectVars, inputVars>>

\* the frame of a returned assemble_chapter_video_fast call is gone
ChapterFramePopped ==
    /\ calls' = <<>>
    /\ cPaths' = <<>>
    /\ cOut' = OutPath
    /\ cUse' = FALSE
    /\ cRet' = FALSE
    /\ cCaller' = "none"
    /\ chOut' = OutPath
    /\ numScenes' = 0
    /\ scIdx' = 0
    /\ scene_clips' = <<>>
    /\ scenesOk' = {}
    /\ lastRender' = NoRender
    /\ chRet' = FALSE

\* the chapter returned True: chapter_videos.append(chapter_output)
ChapterAccepted ==
    /\ pc = "ch_ret"
    /\ entry = "full"
    /\ AcceptChapter(chRet)
    /\ chapter_videos' = Append(chapter_videos, chOut)
    /\ chaptersOk' = (IF chRet THEN chaptersOk \cup {chIdx} ELSE chaptersOk)
    /\ chIdx' = chIdx + 1
    /\ pc' = "p_loop"
    /\ ChapterFramePopped
    /\ UNCHANGED <<disk, yearCard, pRet, inputVars>>

\* the chapter returned False: warning, next chapter
ChapterSkipped ==
    /\ pc = "ch_ret"
    /\ entry = "full"
    /\ ~AcceptChapter(chRet)
    /\ chIdx' = chIdx + 1
    /\ pc' = "p_loop"
    /\ ChapterFramePopped
    /\ UNCHANGED <<disk, yearCard, chapter_videos, chaptersOk, pRet, inputVars>>

\* if not chapter_videos: return False
ProjectNoVideos ==
    /\ pc = "p_loop"
    /\ chIdx > numChapters
    /\ Len(chapter_videos) = 0
    /\ pRet' = FALSE
    /\ pc' = "done"
    /\ UNCHANGED <<composeVars, chapterVars, chIdx, yearCard, chapter_videos,
                   chaptersOk, inputVars>>

\* success = concatenate_videos_ffmpeg(all_videos, output_path,
\*                                     use_transitions=use_transitions)
ProjectCompose ==
    /\ pc = "p_loop"
    /\ chIdx > numChapters
    /\ Len(chapter_videos) > 0
    /\ intro' \in {"unset", "missing", "present"}
    /\ outro' \in {"unset", "missing", "present"}
    /\ cPaths' = AllVideos(intro', chapter_videos, outro')
    /\ cOut' = OutPath
    /\ cUse' = ProjectUseTransitions(useTrans, Len(cPaths'))
    /\ cCaller' = "project"
    /\ calls' = <<>>
    /\ pc' = "concat"
    /\ UNCHANGED <<disk, cRet, chapterVars, projectVars, entry, fnArgs, fnResults, useTrans,
                   numChapters, images>>

\* the compose call returned: remove every file of chapter_videos, return
ProjectCleanup ==
    /\ pc = "ret"
    /\ cCaller = "project"
    /\ disk' = [p \in AllPaths |->
                  IF p \in ProjectCleanupTargets(chapter_videos, cPaths)
                  THEN Absent ELSE disk[p]]
    /\ pRet' = ProjectResult(cRet)
    /\ pc' = "done"
    /\ UNCHANGED <<calls, cPaths, cOut, cUse, cRet, cCaller, chapterVars, chIdx,
                   yearCard, chapter_videos, chaptersOk, inputVars>>

\* ------------------------------------------------------------------ runs
EmptyDisk == [p \in AllPaths |-> Absent]

InitLocals ==
    /\ calls = <<>>
    /\ cRet = FALSE
    /\ scIdx = 0
    /\ scene_clips = <<>>
    /\ scenesOk = {}
    /\ lastRender = NoRender
    /\ chRet = FALSE
    /\ yearCard = "none"
    /\ chapter_videos = <<>>
    /\ chaptersOk = {}
    /\ pRet = FALSE

InitCompose ==
    /\ entry \in {"concat", "crossfade"}
    /\ pc = (IF entry = "concat" THEN "concat" ELSE "xfade")
    /\ disk = [p \in AllPaths |->
                 IF p.kind = "in" THEN [kind |-> "in", n |-> p.n] ELSE Absent]
    /\ \E n \in 0..MaxClips : cPaths = [k \in 1..n |-> InPath(k)]
    /\ cOut = OutPath
    /\ cUse \in (IF entry = "concat" THEN BOOLEAN ELSE {TRUE})
    /\ cCaller = "top"
    /\ useTrans = cUse
    /\ numScenes = 0
    /\ numChapters = 0
    /\ images = "free"
    /\ chIdx = 0
    /\ chOut = OutPath
    /\ intro = "unread"
    /\ outro = "unread"
    /\ fnArgs = NoValue
    /\ fnResults = <<>>
    /\ InitLocals

InitChapter ==
    /\ entry = "chapter"
    /\ pc = "chapter"
    /\ disk = EmptyDisk
    /\ cPaths = <<>>
    /\ cOut = OutPath
    /\ cUse = FALSE
    /\ cCaller = "none"
    /\ useTrans \in BOOLEAN
    /\ numScenes \in 0..MaxScenes
    /\ numChapters = 0
    /\ images = "free"
    /\ chIdx = 0
    /\ chOut = OutPath
    /\ intro = "unread"
    /\ outro = "unread"
    /\ fnArgs = NoValue
    /\ fnResults = <<>>
    /\ InitLocals

Init ==
    /\ entry = "full"
    /\ pc = "project"
    /\ intro = "unread"
    /\ outro = "unread"
    /\ disk = [p \in AllPaths |->
                 IF p \in {IntroPath, OutroPath}
                 THEN [kind |-> "user", n |-> 0] ELSE Absent]
    /\ cPaths = <<>>
    /\ cOut = OutPath
    /\ cUse = FALSE
    /\ cCaller = "none"
    /\ useTrans \in BOOLEAN
    /\ numChapters \in 0..MaxChapters
    /\ numScenes = 0
    /\ images = "free"
    /\ chIdx = 0
    /\ chOut = OutPath
    /\ fnArgs = NoValue
    /\ fnResults = <<>>
    /\ InitLocals

\* nothing of the assembly is running
IdleProgram ==
    /\ disk = EmptyDisk
    /\ cPaths = <<>>
    /\ cOut = OutPath
    /\ cUse = FALSE
    /\ cCaller = "none"
    /\ useTrans = FALSE
    /\ numScenes = 0
    /\ numChapters = 0
    /\ images = "free"
    /\ chIdx = 0
    /\ chOut = OutPath
    /\ intro = "unread"
    /\ outro = "unread"
    /\ InitLocals

\* direct calls of get_effect_for_scene on one scene index
InitEffect ==
    /\ entry = "effect"
    /\ pc = "effect"
    /\ fnArgs \in [scene_index : 0..MaxIndex]
    /\ fnResults = <<>>
    /\ IdleProgram

\* one call get_effect_for_scene(scene_index, total_scenes)
EffectCall ==
    /\ pc = "effect"
    /\ Len(fnResults) < MaxCalls
    /\ \E total \in 1..MaxTotal :
        fnResults' = Append(fnResults,
            [total_scenes |-> total,
             effect |-> get_effect_for_scene(fnArgs.scene_index, total)])
    /\ UNCHANGED <<pc, composeVars, chapterVars, projectVars, entry, fnArgs, useTrans,
                   numChapters, images, intro, outro>>

NextEffect == EffectCall

SpecEffect == InitEffect /\ [][NextEffect]_vars

\* the overlay texts of at most MaxText characters
Texts == UNION {[1..n -> Chars] : n \in 0..MaxText}

\* a direct call of build_typewriter_filter
InitTypewriter ==
    /\ entry = "typewriter"
    /\ pc = "typewriter"
    /\ fnArgs \in [text : Texts, style : {"chapter_title", "quote_box"},
                    start_time : StartTimes, chars_per_second : TypingSpeeds]
    /\ fnResults = <<>>
    /\ IdleProgram

TypewriterCall ==
    /\ pc = "typewriter"
    /\ fnResults = <<>>
    /\ fnResults' = <<build_typewriter_filter(fnArgs.text, fnArgs.style,
                          fnArgs.start_time, fnArgs.chars_per_second)>>
    /\ UNCHANGED <<pc, composeVars, chapterVars, projectVars, entry, fnArgs, useTrans,
                   numChapters, images, intro, outro>>

NextTypewriter == TypewriterCall

SpecTypewriter == InitTypewriter /\ [][NextTypewriter]_vars

\* the hand-off of n clips to concatenate_videos_ffmpeg by the chapter
\* assembly (lines 1374-1375) or by the project assembly (line 1472)
InitPolicy ==
    /\ entry = "policy"
    /\ pc = "policy"
    /\ fnArgs \in [level : {"chapter", "project"}, use_transitions : BOOLEAN,
                    clips : 0..MaxCount]
    /\ fnResults = <<>>
    /\ IdleProgram

PolicyCall ==
    /\ pc = "policy"
    /\ fnResults = <<>>
    /\ fnResults' =
          <<ComposeRoute(
              IF fnArgs.level = "chapter"
              THEN ShouldUseTransitions(fnArgs.use_transitions, fnArgs.clips)
              ELSE ProjectUseTransitions(fnArgs.use_transitions, fnArgs.clips),
              fnArgs.clips)>>
    /\ UNCHANGED <<pc, composeVars, chapterVars, projectVars, entry, fnArgs, useTrans,
                   numChapters, images, intro, outro>>

NextPolicy == PolicyCall

SpecPolicy == InitPolicy /\ [][NextPolicy]_vars

\* a direct call of build_simple_text_filter
InitSimpleText ==
    /\ entry = "simple_text"
    /\ pc = "simple_text"
    /\ fnArgs \in [style : DOMAIN TEXT_STYLES \cup {UnregisteredStyle},
                    start_time : SimpleStarts,
                    end_time : {NoValue, 0} \cup SimpleEnds,
                    fade_duration : FadeDurations]
    /\ fnResults = <<>>
    /\ IdleProgram

SimpleTextCall ==
    /\ pc = "simple_text"
    /\ fnResults = <<>>
    /\ fnResults' = <<build_simple_text_filter(fnArgs.style, fnArgs.start_time,
                          fnArgs.end_time, fnArgs.fade_duration)>>
    /\ UNCHANGED <<pc, composeVars, chapterVars, projectVars, entry, fnArgs, useTrans,
                   numChapters, images, intro, outro>>

NextSimpleText == SimpleTextCall

SpecSimpleText == InitSimpleText /\ [][NextSimpleText]_vars

\* a direct call of build_zoompan_filter
InitPreset ==
    /\ entry = "preset"
    /\ pc = "preset"
    /\ fnArgs \in [effect : DOMAIN KEN_BURNS_PRESETS \cup {UnregisteredEffect},
                    size : Sizes]
    /\ fnResults = <<>>
    /\ IdleProgram

PresetCall ==
    /\ pc = "preset"
    /\ fnResults = <<>>
    /\ fnResults' = <<build_zoompan_filter(fnArgs.effect, fnArgs.size[1],
                                           fnArgs.size[2])>>
    /\ UNCHANGED <<pc, composeVars, chapterVars, projectVars, entry, fnArgs, useTrans,
                   numChapters, images, intro, outro>>

NextPreset == PresetCall

SpecPreset == InitPreset /\ [][NextPreset]_vars

\* a direct call of a scene-producing operation (audio = NoValue: no
\* narration file)
InitFrames ==
    /\ entry = "frames"
    /\ pc = "frames"
    /\ fnArgs \in [op : SceneOps, duration : OpDurations,
                    audio : {NoValue} \cup OpAudioDurs, fps : FrameRates]
    /\ fnResults = <<>>
    /\ IdleProgram

FramesCall ==
    /\ pc = "frames"
    /\ fnResults = <<>>
    /\ fnResults' = <<SceneOperation(fnArgs.op, fnArgs.duration, fnArgs.audio,
                                     fnArgs.fps)>>
    /\ UNCHANGED <<pc, composeVars, chapterVars, projectVars, entry, fnArgs, useTrans,
                   numChapters, images, intro, outro>>

NextFrames == FramesCall

SpecFrames == InitFrames /\ [][NextFrames]_vars

\* a direct call of concatenate_videos_ffmpeg or concatenate_with_crossfade
NextCompose ==
    \/ ConcatEmpty
    \/ ConcatSingle
    \/ ConcatToCrossfade
    \/ ConcatEngine
    \/ CrossfadeEmpty
    \/ CrossfadeSingle
    \/ CrossfadeEngine
    \/ ComposeReturnTop

SpecCompose == InitCompose /\ [][NextCompose]_vars

\* a direct call of assemble_chapter_video_fast or of a compose function
NextChapter ==
    \/ ConcatEmpty
    \/ CrossfadeEmpty
    \/ CrossfadeSingle
    \/ ComposeReturnTop
    \/ ChapterNoScenes
    \/ ChapterBegin
    \/ SceneImageMissing
    \/ SceneCall
    \/ SceneDurationRaises
    \/ SceneRendered
    \/ SceneRenderFailed
    \/ SceneLogRaises
    \/ ChapterNoClips
    \/ ChapterCompose
    \/ ChapterCleanup
    \/ ChapterReturnTop
    \/ ConcatSingle
    \/ ConcatToCrossfade
    \/ ConcatEngine
    \/ CrossfadeEngine

SpecChapter == (InitCompose \/ InitChapter) /\ [][NextChapter]_vars

\* a call of assemble_full_video_fast
Next ==
    \/ ProjectNoChapters
    \/ ProjectMalformed
    \/ ProjectNoTitleCard
    \/ ProjectTitleCardOk
    \/ ProjectTitleCardFailed
    \/ ProjectNextChapter
    \/ ChapterNoScenes
    \/ ChapterBegin
    \/ SceneImageMissing
    \/ SceneCall
    \/ SceneDurationRaises
    \/ SceneRendered
    \/ SceneRenderFailed
    \/ SceneLogRaises
    \/ ChapterNoClips
    \/ ChapterCompose
    \/ ChapterCleanup
    \/ ChapterAccepted
    \/ ChapterSkipped
    \/ ProjectNoVideos
    \/ ProjectCompose
    \/ ProjectCleanup
    \/ ConcatSingle
    \/ ConcatToCrossfade
    \/ ConcatEngine
    \/ CrossfadeEngine

Spec == Init /\ [][Next]_vars

\* ------------------------------------------------------------ properties
Min(a, b) == IF a <= b THEN a ELSE b

\* the crossfade path of the current compose call failed
CrossfadeFailed ==
    \E j \in 1..Len(calls) : calls[j].by = "xfade" /\ calls[j].res # "ok"

\* the last external invocation of the current compose call succeeded and
\* was made by concatenate_videos_ffmpeg
HardCutSucceeded ==
    /\ Len(calls) > 0
    /\ calls[Len(calls)].by = "concat"
    /\ calls[Len(calls)].res = "ok"

\* C1: a scene whose audio file exists and whose probed duration is d is
\* rendered with duration max(d + 0.4, 5.0), whatever its explicit
\* 'duration' field says.
C1_AudioDuration ==
    (pc = "render" /\ lastRender.audio = "present") =>
        /\ lastRender.duration >= lastRender.d + 40
        /\ lastRender.duration >= 500
        /\ lastRender.duration \in {lastRender.d + 40, 500}

\* a scene with 7 s of narration and an explicit duration of 9 s goes to
\* the renderer with 7.4 s
C1_Witness ==
    /\ pc = "render"
    /\ lastRender.audio = "present"
    /\ lastRender.d = 700
    /\ lastRender.e = 900
    /\ lastRender.duration = 740

\* C2: a scene without usable audio is rendered with duration max(e, 5.0),
\* e being its explicit 'duration' or 8.0 when it has none; every scene
\* clip is rendered with a duration of at least 5.0.
C2_NoAudioDuration ==
    pc = "render" =>
        /\ lastRender.duration >= 500
        /\ lastRender.audio # "present" =>
             LET x == IF lastRender.e = NoValue THEN 800 ELSE lastRender.e
             IN  lastRender.duration = (IF x < 500 THEN 500 ELSE x)

\* a scene whose audio reference does not resolve and whose explicit
\* duration is 2 s goes to the renderer with the 5 s floor
C2_Witness ==
    /\ pc = "render"
    /\ lastRender.audio = "missing"
    /\ lastRender.e = 200
    /\ lastRender.duration = 500

\* C3: for the k clips of a crossfade chain with probed durations d and
\* transition g, offset_i = offset_(i-1) + d_i - g with offset_(-1) = 0, the
\* offsets are strictly increasing, and offset_i + g <= d_0 + ... + d_i.
\* (the module's sequences are 1-based: offsets[i] is the code's offset_(i-1))
C3_OffsetsClaim ==
    \A j \in 1..Len(calls) :
        calls[j].op = "xfade" =>
            LET d == calls[j].durations
                o == calls[j].offsets
            IN  /\ Len(o) = Len(d) - 1
                /\ \A i \in 1..Len(o) :
                    /\ o[i] = (IF i = 1 THEN 0 ELSE o[i - 1]) + d[i] - 75
                    /\ i > 1 => o[i] > o[i - 1]
                    /\ o[i] + 75 <= SumTo(d, i)

\* C4: when g >= min(d_i, d_(i+1)) for some adjacent pair, no crossfade
\* graph reaches the engine: the engine is never invoked with a crossfade
\* graph whose clips violate g < min(d_i, d_(i+1)), nor with a negative or
\* non-increasing offset.
C4_FailFast ==
    \A j \in 1..Len(calls) :
        calls[j].op = "xfade" =>
            LET d == calls[j].durations
                o == calls[j].offsets
            IN  /\ \A i \in 1..(Len(d) - 1) : 75 < Min(d[i], d[i + 1])
                /\ \A i \in 1..Len(o) :
                    /\ o[i] >= 0
                    /\ i > 1 => o[i] > o[i - 1]

\* C5: when the crossfade engine returns nonzero or the crossfade path
\* raises, the next thing done is a plain concatenation (use_transitions
\* False) of the same clip list, in the same order, to the same output path,
\* and its result is what the compose call returns.
C5_FallbackSameClips ==
    \A j \in 1..Len(calls) :
        (calls[j].by = "xfade" /\ calls[j].res # "ok") =>
            /\ calls[j].paths = cPaths
            /\ calls[j].out = cOut
            /\ pc = "xfade" => FALSE
            /\ pc = "concat" => (j = Len(calls) /\ ~cUse)
            /\ pc # "concat" =>
                /\ Len(calls) = j + 1
                /\ calls[j + 1].by = "concat"
                /\ calls[j + 1].op = (IF Len(cPaths) = 1 THEN "cp" ELSE "concat")
                /\ calls[j + 1].paths = calls[j].paths
                /\ calls[j + 1].out = calls[j].out
                /\ cRet = (calls[j + 1].res = "ok")

\* a crossfade run that returned nonzero, followed by a successful hard cut
C5_Witness ==
    /\ pc = "ret"
    /\ Len(calls) = 2
    /\ calls[1].op = "xfade"
    /\ calls[1].res = "nonzero"
    /\ Len(calls[1].paths) = 3
    /\ calls[2].op = "concat"
    /\ calls[2].res = "ok"
    /\ cRet

\* C6 as stated: whenever the crossfade path fails, the compose call, and
\* the chapter or project assembly that made it, returns success.
C6_TransitionFailureNeverSurfaces ==
    CrossfadeFailed =>
        /\ pc = "ret" => cRet
        /\ (pc = "ch_ret" /\ cCaller = "chapter") => chRet
        /\ (pc = "done" /\ cCaller = "project") => pRet

\* C6 (amended): whenever the crossfade path fails, the compose call returns
\* the result of the hard-cut concatenation, and the chapter or project
\* assembly that made the call returns that same result: success exactly
\* when the hard-cut concatenation succeeded.
C6_TransitionFailureFallsBack ==
    CrossfadeFailed =>
        /\ pc = "ret" => (cRet = HardCutSucceeded)
        /\ (pc = "ch_ret" /\ cCaller = "chapter") => (chRet = HardCutSucceeded)
        /\ (pc = "done" /\ cCaller = "project") => (pRet = HardCutSucceeded)

\* a project whose final crossfade failed and whose hard cut succeeded
C6_Witness ==
    /\ pc = "done"
    /\ cCaller = "project"
    /\ CrossfadeFailed
    /\ HardCutSucceeded
    /\ pRet

\* C7: composing exactly one clip, with transitions on or off, invokes only
\* the copy of that clip to the output, never the crossfade or the concat
\* engine; the call succeeds exactly when the copy does and the output is
\* then the clip unchanged.  A chapter with one rendered scene outputs that
\* scene's clip unchanged.
C7_SingleClipIdentity ==
    (Len(cPaths) = 1 /\ cCaller \in {"top", "chapter", "project"}) =>
        /\ \A j \in 1..Len(calls) :
            /\ calls[j].op = "cp"
            /\ calls[j].paths = cPaths
            /\ calls[j].out = cOut
        /\ pc = "ret" =>
            /\ Len(calls) >= 1
            /\ cRet = (calls[Len(calls)].res = "ok")
            /\ cRet => (disk[cOut] = disk[cPaths[1]] /\ disk[cOut] # Absent)
        /\ (pc = "ch_ret" /\ cCaller = "chapter") =>
            /\ chRet = (calls[Len(calls)].res = "ok")
            /\ chRet => disk[chOut] = [kind |-> "scene", n |-> scene_clips[1].n]

\* a chapter run with transitions enabled in which one scene rendered
C7_Witness ==
    /\ pc = "ch_ret"
    /\ cCaller = "chapter"
    /\ useTrans
    /\ Len(scene_clips) = 1
    /\ Len(calls) = 1
    /\ chRet
    /\ disk[chOut].kind = "scene"

\* C8: composing an empty clip list is an error: a direct call of
\* concatenate_videos_ffmpeg or concatenate_with_crossfade with no clip
\* returns failure and produces no output.
C8_EmptyIsError ==
    (cCaller = "top" /\ Len(cPaths) = 0 /\ pc \in {"ret", "done"}) =>
        /\ ~cRet
        /\ disk[cOut] = Absent
        /\ calls = <<>>

\* C9: assemble_chapter_video_fast returns failure only if no scene
\* rendered; an error while processing a scene does not end the loop (every
\* declared scene is visited before the chapter returns).
C9_ChapterFailsOnlyIfNoScene ==
    pc = "ch_ret" =>
        /\ ~chRet => Len(scene_clips) = 0
        /\ numScenes > 0 => scIdx > numScenes

\* C10: when no chapter of the project assembled successfully,
\* assemble_full_video_fast returns failure, title card or not.
C10_NoChapterNoProject ==
    (pc = "done" /\ chaptersOk = {}) => ~pRet

\* the paths of a clip list
PathsOf(paths) == {paths[k] : k \in 1..Len(paths)}

\* C11 as stated: when at least one chapter assembled, the project returns
\* success and the final clip list has no clip of a failed chapter.
C11_PartialSuccessIsSuccess ==
    (pc = "done" /\ chaptersOk # {}) =>
        /\ pRet
        /\ \A c \in 1..numChapters :
            c \notin chaptersOk => ChapterPath(c) \notin PathsOf(cPaths)

\* C11 (amended): when at least one chapter assembled, a failed chapter is
\* left out of the final clip list and does not fail the project: the final
\* composition is made and the project returns its result, success exactly
\* when the last engine or copy run of that composition succeeded.
C11_PartialSuccessComposes ==
    (pc = "done" /\ chaptersOk # {}) =>
        /\ cCaller = "project"
        /\ Len(calls) > 0
        /\ pRet = (calls[Len(calls)].res = "ok")
        /\ \A c \in 1..numChapters :
            /\ c \notin chaptersOk => ChapterPath(c) \notin PathsOf(cPaths)
            /\ c \in chaptersOk => ChapterPath(c) \in PathsOf(cPaths)

\* a project of two chapters: the first assembled, the second failed, and
\* the project returned success with the first chapter's clip only
C11_Witness ==
    /\ pc = "done"
    /\ numChapters = 2
    /\ chaptersOk = {1}
    /\ pRet
    /\ ChapterPath(1) \in PathsOf(cPaths)
    /\ ChapterPath(2) \notin PathsOf(cPaths)

\* clips is the units of the given kind with the indices of S, each once, in
\* increasing index order
InDeclaredOrder(clips, kind, S) ==
    /\ Len(clips) = Cardinality(S)
    /\ \A k \in 1..Len(clips) :
        /\ clips[k].kind = kind
        /\ clips[k].n \in S
        /\ k < Len(clips) => clips[k].n < clips[k + 1].n

IsChapterClip(p) == p.kind = "chapter"

\* C12: the clip list handed to composition is exactly the successfully
\* rendered units in declared order: a chapter composes the clips of the
\* scenes whose render succeeded, in scene order; a project composes the
\* clips of the chapters that assembled, in chapter order; none is
\* reordered or duplicated.
C12_DeclaredOrder ==
    /\ pc \in {"scene", "render"} =>
        InDeclaredOrder(scene_clips, "scene", scenesOk)
    /\ cCaller = "chapter" =>
        /\ cPaths = scene_clips
        /\ InDeclaredOrder(cPaths, "scene", scenesOk)
    /\ cCaller = "project" =>
        InDeclaredOrder(SelectSeq(cPaths, IsChapterClip), "chapter", chaptersOk)

\* in a project whose first chapter failed, the second chapter rendered its
\* two scenes and its composition got the two scene clips in scene order
C12_Witness ==
    /\ cCaller = "chapter"
    /\ chIdx = 2
    /\ chaptersOk = {}
    /\ pc = "ret"
    /\ cPaths = <<ScenePath(1), ScenePath(2)>>

\* the positions of a path in a clip list
PositionsOf(paths, p) == {k \in 1..Len(paths) : paths[k] = p}

\* C13: in the final clip list of a project the intro clip is the first
\* element and the outro clip the last, each included exactly when its
\* reference is set and the file exists; an unset or unresolvable reference
\* leaves the clip out and the project still composes and returns the
\* composition's result.
C13_IntroFirstOutroLast ==
    cCaller = "project" =>
        /\ intro \in {"unset", "missing", "present"}
        /\ outro \in {"unset", "missing", "present"}
        /\ PositionsOf(cPaths, IntroPath) =
               (IF intro = "present" THEN {1} ELSE {})
        /\ PositionsOf(cPaths, OutroPath) =
               (IF outro = "present" THEN {Len(cPaths)} ELSE {})
        /\ pc = "done" =>
               /\ Len(calls) > 0
               /\ pRet = (calls[Len(calls)].res = "ok")

\* a project with a resolvable intro and an outro reference that does not
\* resolve: the list starts with the intro and ends with a chapter clip,
\* and the project succeeded
C13_Witness ==
    /\ pc = "done"
    /\ cCaller = "project"
    /\ intro = "present"
    /\ outro = "missing"
    /\ pRet
    /\ cPaths[1] = IntroPath
    /\ cPaths[Len(cPaths)].kind = "chapter"

\* C14 as stated: a synthesized title card is the first clip of the final
\* clip list.
C14_TitleCardFirst ==
    (cCaller = "project" /\ yearCard = "ok") =>
        /\ Len(cPaths) > 0
        /\ cPaths[1] = YearCardPath

\* C14 (amended): a synthesized title card is in the final clip list once,
\* before every chapter clip and the outro; only the intro clip can precede
\* it, so it is the first clip exactly when no intro is included.
C14_TitleCardFirstAfterIntro ==
    (cCaller = "project" /\ yearCard = "ok") =>
        /\ PositionsOf(cPaths, YearCardPath) =
               (IF intro = "present" THEN {2} ELSE {1})
        /\ \A k \in 1..Len(cPaths) :
               cPaths[k].kind \in {"chapter", "outro"} =>
                   \A j \in PositionsOf(cPaths, YearCardPath) : j < k

\* a project with a title card and a resolvable intro: the card is the
\* second clip of the final list
C14_Witness ==
    /\ cCaller = "project"
    /\ yearCard = "ok"
    /\ intro = "present"
    /\ Len(cPaths) >= 3
    /\ cPaths[1] = IntroPath
    /\ cPaths[2] = YearCardPath
    /\ cPaths[3].kind = "chapter"

\* C15: get_effect_for_scene(i, n) returns EFFECT_SEQUENCES[i mod 3][i mod 6]
\* for every i >= 0, whatever n is and whatever was called before: calls
\* with the same index return the same preset.
C15_EffectIsPure ==
    entry = "effect" =>
        LET i == fnArgs.scene_index
        IN  \A j \in 1..Len(fnResults) :
                /\ fnResults[j].effect =
                       EFFECT_SEQUENCES[(i % 3) + 1][(i % 6) + 1]
                /\ \A k \in 1..Len(fnResults) :
                       fnResults[k].effect = fnResults[j].effect

\* two calls for index 7 with different scene counts, both returning the
\* preset at [1][1]
C15_Witness ==
    /\ entry = "effect"
    /\ fnArgs.scene_index = 7
    /\ Len(fnResults) = 2
    /\ fnResults[1].total_scenes # fnResults[2].total_scenes
    /\ fnResults[1].effect = "zoom_out_center"
    /\ fnResults[2].effect = "zoom_out_center"

\* C16: a scene whose 'ken_burns_effect' is a registered preset is rendered
\* with that preset; any other scene is rendered with the preset
\* EFFECT_SEQUENCES[i mod 3][i mod 6] of its index i in the declared scene
\* list, whatever the number of scenes rendered before it.
C16_EffectOfScene ==
    pc = "render" =>
        LET i == scIdx - 1
        IN  /\ lastRender.i = scIdx
            /\ lastRender.kb = "focus_top_right" =>
                   lastRender.effect = "focus_top_right"
            /\ lastRender.kb \in {"unset", "spin"} =>
                   lastRender.effect = EFFECT_SEQUENCES[(i % 3) + 1][(i % 6) + 1]

\* the second declared scene rendered after the first was skipped, its
\* 'ken_burns_effect' not registered: it gets the preset of index 1
C16_Witness ==
    /\ pc = "render"
    /\ scIdx = 2
    /\ scene_clips = <<>>
    /\ lastRender.kb = "spin"
    /\ lastRender.effect = "zoom_out_center"

\* C17: the overlay of a scene is its explicit 'text_overlay' if it has
\* one, else the one derived from 'date_text', else the one derived from
\* 'location_text', else the chapter title when the scene has declared
\* index 0 and the title is non-empty, else none; a scene of index > 0
\* never gets the chapter title.
C17_OverlayPrecedence ==
    pc = "render" =>
        LET r == lastRender
            first == (scIdx = 1)
        IN  /\ r.to # "unset" => r.overlay = r.to
            /\ (r.to = "unset" /\ r.date) => r.overlay = "date_text"
            /\ (r.to = "unset" /\ ~r.date /\ r.loc) =>
                   r.overlay = "location_text"
            /\ (r.to = "unset" /\ ~r.date /\ ~r.loc /\ first /\ r.title) =>
                   r.overlay = "chapter_title"
            /\ (r.to = "unset" /\ ~r.date /\ ~r.loc /\ ~(first /\ r.title)) =>
                   r.overlay = "none"
            /\ ~first => r.overlay # "chapter_title"

\* the second scene of a titled chapter, without overlay fields of its own,
\* goes to the renderer without overlay
C17_Witness ==
    /\ pc = "render"
    /\ scIdx = 2
    /\ lastRender.title
    /\ lastRender.to = "unset"
    /\ ~lastRender.date
    /\ ~lastRender.loc
    /\ lastRender.overlay = "none"

\* C18: a scene whose referenced image or referenced audio is absent on
\* disk is skipped: no clip is rendered for it (and the loop goes on).
C18_MissingInputSkipsScene ==
    pc = "render" => lastRender.audio # "missing"

\* the main-layer glyph primitives of a filter, in output order
IsGlyph(prim) == prim.kind = "drawtext"
GlyphsOf(filter) == SelectSeq(filter, IsGlyph)

\* the flattened index (0-based, newlines counted) of the j-th glyph of text
FlatIndex(text, j) ==
    (CHOOSE k \in 1..Len(text) :
        /\ text[k] # "NL"
        /\ Cardinality({m \in 1..k : text[m] # "NL"}) = j) - 1

\* C19 as stated: the glyph at flattened index i is visible exactly from
\* t >= start_time + i / chars_per_second on.
C19_RevealTimeExact ==
    (entry = "typewriter" /\ Len(fnResults) = 1) =>
        LET a == fnArgs
            g == GlyphsOf(fnResults[1])
        IN  /\ Len(g) = Cardinality({m \in 1..Len(a.text) : a.text[m] # "NL"})
            /\ \A j \in 1..Len(g) :
                /\ g[j].char = a.text[FlatIndex(a.text, j) + 1]
                /\ g[j].enable.op = "gte"
                /\ g[j].enable.t * a.chars_per_second =
                       a.start_time * a.chars_per_second
                       + 1000 * FlatIndex(a.text, j)

\* C19 (amended): every character of the text other than a newline gets one
\* glyph, in text order; the glyph at flattened index i (newlines counted)
\* is visible from a threshold on, without upper bound, and the threshold is
\* start_time + i / chars_per_second rounded to the millisecond (at most
\* half a millisecond away); for "AB" at 2 chars/s from 1.0 the thresholds
\* are 1.0 and 1.5.
C19_RevealTimeMillis ==
    (entry = "typewriter" /\ Len(fnResults) = 1) =>
        LET a == fnArgs
            g == GlyphsOf(fnResults[1])
        IN  /\ Len(g) = Cardinality({m \in 1..Len(a.text) : a.text[m] # "NL"})
            /\ \A j \in 1..Len(g) :
                LET off == 2 * (g[j].enable.t * a.chars_per_second
                                - a.start_time * a.chars_per_second
                                - 1000 * FlatIndex(a.text, j))
                IN  /\ g[j].char = a.text[FlatIndex(a.text, j) + 1]
                    /\ g[j].enable.op = "gte"
                    /\ off <= a.chars_per_second
                    /\ 0 - off <= a.chars_per_second
            /\ (a.text = <<"A", "B">> /\ a.chars_per_second = 2
                   /\ a.start_time = 1000) =>
                   (g[1].enable.t = 1000 /\ g[2].enable.t = 1500)

\* "A", newline, "B" typed at 12 chars/s from 0.5: 'B' has flattened index 2
\* and is visible from 0.667
C19_Witness ==
    /\ entry = "typewriter"
    /\ Len(fnResults) = 1
    /\ fnArgs.text = <<"A", "NL", "B">>
    /\ fnArgs.chars_per_second = 12
    /\ fnArgs.start_time = 500
    /\ GlyphsOf(fnResults[1])[2].char = "B"
    /\ GlyphsOf(fnResults[1])[2].line = 1
    /\ GlyphsOf(fnResults[1])[2].enable.t = 667

\* C20: assemble_chapter_video_fast and assemble_full_video_fast return a
\* success/failure value on every path: no exception leaves either
\* function, and a chapter assembly that an exception ended before its scene
\* loop finished returns failure.
C20_AlwaysReturns ==
    /\ pc # "raised"
    /\ pc = "ch_ret" =>
          /\ chRet \in BOOLEAN
          /\ (numScenes > 0 /\ scIdx <= numScenes) => ~chRet
    /\ (pc = "done" /\ entry = "full") => pRet \in BOOLEAN

\* inside a project, a chapter assembly returned failure from its handler
\* after a scene clip had been rendered
C20_Witness ==
    /\ pc = "ch_ret"
    /\ entry = "full"
    /\ numScenes > 0
    /\ scIdx <= numScenes
    /\ Len(scene_clips) > 0
    /\ ~chRet

\* C21: a scene temp clip is deleted only after the composition call that
\* consumes it has returned, and once assemble_chapter_video_fast has
\* returned, on any exit path, no scene temp clip it rendered is on disk.
C21_SceneClipsCleaned ==
    /\ (pc \in {"scene", "render"}
         \/ (cCaller = "chapter" /\ pc \in {"concat", "xfade", "ret"})) =>
           \A i \in scenesOk : disk[ScenePath(i)] # Absent
    /\ pc = "ch_ret" =>
           \A i \in scenesOk : disk[ScenePath(i)] = Absent

\* C22: the clips go to the crossfade composer exactly when transitions are
\* enabled and the clip count is between 2 and 20 inclusive, at the chapter
\* level and at the project level; otherwise they are hard-cut (or copied,
\* for one clip).
C22_CrossfadePolicy ==
    (entry = "policy" /\ Len(fnResults) = 1) =>
        ((fnResults[1] = "crossfade") <=>
            (fnArgs.use_transitions /\ fnArgs.clips >= 2 /\ fnArgs.clips <= 20))

\* the window along one axis lies within the image: 0 <= low edge and
\* high edge <= size
WithinImage(v) ==
    /\ v.lo >= 0
    /\ v.hi <= v.size * v.den

\* C23: for every preset of KEN_BURNS_PRESETS both zoom factors are >= 1.0
\* and, at the start and at the end of the motion, the window with low edge
\* anchor*W - W/(2*zoom) and width W/zoom lies within [0, W], and likewise
\* within [0, H] for y.
C23_ViewportWithinImage ==
    (entry = "preset" /\ Len(fnResults) = 1) =>
        LET m == fnResults[1]
        IN  /\ m.start.zoom >= 100
            /\ m.end.zoom >= 100
            /\ WithinImage(m.start.x)
            /\ WithinImage(m.start.y)
            /\ WithinImage(m.end.x)
            /\ WithinImage(m.end.y)

\* C26: in every scene-producing operation the frame count that normalizes
\* the motion progress is floor(D * fps), D being the duration the clip is
\* rendered with (the -t value), also when narration lengthens the clip.
C26_FrameCountOfFinalDuration ==
    (entry = "frames" /\ Len(fnResults) = 1) =>
        fnResults[1].total_frames = (fnResults[1].t * fnArgs.fps) \div 100

\* C24: when create_title_card fails, the card is left out of the clips to
\* compose, every chapter is still assembled, and the project fails only if
\* no chapter was produced or the final composition failed.
C24_TitleCardFailureOmitted ==
    yearCard = "failed" =>
        /\ \A k \in 1..Len(chapter_videos) : chapter_videos[k] # YearCardPath
        /\ \A k \in 1..Len(cPaths) : cPaths[k] # YearCardPath
        /\ pc = "done" =>
               /\ chIdx > numChapters
               /\ pRet <=> (chapter_videos # <<>> /\ cRet)

\* the title card failed and the project succeeded
C24_Witness ==
    /\ pc = "done"
    /\ yearCard = "failed"
    /\ chaptersOk # {}
    /\ pRet

\* C30: a file disappears only if it is a scene clip (removed by the
\* chapter that rendered it), or the year title card or a chapter_N clip
\* removed after the final composition call has returned; the intro, the
\* outro and the final output are never deleted.
C30_CleanupOnlyOwnArtifacts ==
    [][\A p \in AllPaths :
          (disk[p] # Absent /\ disk'[p] = Absent) =>
              \/ p.kind = "scene"
              \/ /\ p.kind \in {"year_card", "chapter"}
                 /\ pc = "ret"
                 /\ cCaller = "project"
                 /\ pc' = "done"]_vars

\* the project succeeded with a title card and an intro: card and chapter
\* clip are gone, intro, outro and output are still there
C30_Witness ==
    /\ pc = "done"
    /\ pRet
    /\ yearCard = "ok"
    /\ intro = "present"
    /\ outro = "present"
    /\ chaptersOk # {}
    /\ disk[YearCardPath] = Absent
    /\ \A c \in chaptersOk : disk[ChapterPath(c)] = Absent
    /\ disk[IntroPath] # Absent
    /\ disk[OutroPath] # Absent
    /\ disk[OutPath] # Absent

\* C25: every scene clip rendered with a text overlay has the overlay's
\* reveal start strictly before the clip's resolved duration, also when
\* the overlay and its start_time come from the scene's 'text_overlay'.
C25_OverlayStartsWithinClip ==
    (pc = "render" /\ lastRender.start # NoValue) =>
        lastRender.start < lastRender.duration

\* the longest line of a text
LongestLine(text) ==
    LET lines == SplitLines(text)
    IN  CHOOSE m \in {Len(lines[n]) : n \in 1..Len(lines)} :
            \A n \in 1..Len(lines) : Len(lines[n]) <= m

\* C27: for a boxed style build_typewriter_filter emits exactly one box
\* primitive, as the first primitive, visible from start_time - 0.1 and so
\* before every glyph, of width int(maxLineLen * fontsize * 0.55 + 50) and
\* height int(numLines * int(fontsize * 1.4) + 30); for a style without a
\* box it emits no box primitive.
C27_BoxPrimitive ==
    (entry = "typewriter" /\ Len(fnResults) = 1) =>
        LET out == fnResults[1]
            boxes == {k \in 1..Len(out) : out[k].kind = "drawbox"}
            fontsize == TEXT_STYLES[fnArgs.style].fontsize
            numLines == Cardinality({k \in 1..Len(fnArgs.text) :
                                        fnArgs.text[k] = "NL"}) + 1
        IN  IF TEXT_STYLES[fnArgs.style].box
            THEN /\ boxes = {1}
                 /\ out[1].enable = [op |-> "gte", t |-> fnArgs.start_time - 100]
                 /\ \A k \in 2..Len(out) : out[k].enable.t > out[1].enable.t
                 /\ out[1].w =
                        (LongestLine(fnArgs.text) * fontsize * 55 + 5000) \div 100
                 /\ out[1].h = numLines * ((fontsize * 14) \div 10) + 30
            ELSE boxes = {}

\* a boxed style over two lines of one character each
C27_Witness ==
    /\ entry = "typewriter"
    /\ Len(fnResults) = 1
    /\ fnArgs.style = "quote_box"
    /\ fnArgs.text = <<"A", "NL", "B">>
    /\ fnArgs.start_time = 500
    /\ Len(fnResults[1]) = 3
    /\ fnResults[1][1].kind = "drawbox"
    /\ fnResults[1][1].w = 70
    /\ fnResults[1][1].h = 136
    /\ fnResults[1][1].enable.t = 400

\* C28: every text primitive of build_simple_text_filter carries the alpha
\* ramp (0 to 1 over fade_duration from start, and with an end time a
\* symmetric fade-out ending at end); with an end time the primitives are
\* not visible after end, without one they stay visible for all t >= start.
C28_SimpleTextFades ==
    (entry = "simple_text" /\ Len(fnResults) = 1) =>
        \A k \in 1..Len(fnResults[1]) :
            LET prim == fnResults[1][k]
            IN  /\ "alpha" \in prim.opts
                /\ prim.enable.from = fnArgs.start_time
                /\ EndGiven(fnArgs.end_time) =>
                       (prim.enable.op = "between" /\ prim.enable.to = fnArgs.end_time)
                /\ ~EndGiven(fnArgs.end_time) => prim.enable.op = "gte"

\* the variant of a compose call: 4 entering concatenate_videos_ffmpeg with
\* transitions, 3 in concatenate_with_crossfade, 2 in
\* concatenate_videos_ffmpeg without transitions, 1 returning, 0 returned
ComposeMeasure ==
    CASE pc = "concat" /\ cUse /\ Len(cPaths) >= 2 -> 4
      [] pc = "xfade" -> 3
      [] pc = "concat" -> 2
      [] pc = "ret" -> 1
      [] OTHER -> 0

\* C29: every step of a compose call decreases the variant, so the call
\* terminates; concatenate_with_crossfade hands over to
\* concatenate_videos_ffmpeg only with use_transitions False, and a compose
\* call makes at most one crossfade engine run and at most one concat
\* engine run.
C29_FallbackOnce ==
    [][/\ ComposeMeasure' < ComposeMeasure
       /\ (pc = "xfade" /\ pc' = "concat") => ~cUse'
       /\ Cardinality({k \in 1..Len(calls') : calls'[k].op = "xfade"}) <= 1
       /\ Cardinality({k \in 1..Len(calls') : calls'[k].op = "concat"}) <= 1]_vars

\* a compose call entered with transitions whose crossfade raised and whose
\* hard cut then ran: one run of each engine
C29_Witness ==
    /\ entry = "concat"
    /\ pc = "done"
    /\ Len(calls) = 2
    /\ calls[1].op = "xfade"
    /\ calls[1].res = "raise"
    /\ calls[2].op = "concat"
    /\ ~cUse


TypeOK ==
    /\ pc \in {"concat", "xfade", "ret", "done", "chapter", "scene", "render",
               "ch_ret", "project", "p_loop", "effect", "typewriter",
               "policy", "preset", "frames", "simple_text"}
    /\ cRet \in BOOLEAN
    /\ chRet \in BOOLEAN
    /\ pRet \in BOOLEAN

====
